---- MODULE Spec2Model ----
(***************************************************************************)
(* Model of src/Simulation_Case.py: one run of main(), the Streamlit       *)
(* script of the manufacturing process simulator.                         *)
(*                                                                         *)
(* Numbers.  The script computes in floating point.  Here dimensions and   *)
(* standard deviations are integers in units of 0.001 mm (the step of the  *)
(* widgets), money is in whole dollars, and every quotient is an exact     *)
(* rational [num, den] in lowest terms with den > 0.  The standard normal  *)
(* CDF is a table in thousandths over z in tenths.                         *)
(***************************************************************************)
EXTENDS Integers, Sequences, FiniteSets, TLC

VARIABLES
    pc,                 \* position of the script run
    target_dimension, process_mean, process_std, lower_spec, upper_spec,
    batch_size, cost_per_unit, revenue_per_unit,
    manufactured_parts,
    defects, defect_rate, total_manufacturing_cost, good_parts,
    total_revenue, profit,
    cp, cpu, cpl, cpk,
    x, in_spec_x, lower_out_x, upper_out_x,
    capability_label, financial_label,
    improved_std, centered_mean, improved_mean,
    defect_rate_improved, good_parts_improved, total_revenue_improved,
    improvement_cost, profit_improved, roi,
    cpu_improved, cpl_improved, cpk_improved

inputs == <<target_dimension, process_mean, process_std, lower_spec,
            upper_spec, batch_size, cost_per_unit, revenue_per_unit>>
current == <<defects, defect_rate, total_manufacturing_cost, good_parts,
             total_revenue, profit, cp, cpu, cpl, cpk>>
curve == <<x, in_spec_x, lower_out_x, upper_out_x>>
labels == <<capability_label, financial_label>>
improvement == <<improved_std, centered_mean, improved_mean,
                 defect_rate_improved, good_parts_improved,
                 total_revenue_improved, improvement_cost, profit_improved,
                 roi, cpu_improved, cpl_improved, cpk_improved>>
vars == <<pc, inputs, manufactured_parts, current, curve, labels, improvement>>

(***************************************************************************)
(* Bounds of the model.                                                    *)
(***************************************************************************)
\* Largest process standard deviation offered by the sidebar, in 0.001 mm.
MaxStd == 4
\* Largest batch size (the widget offers 100..10000; scaled down).
MaxBatch == 2
\* Number of points of the density curve (the script uses 1000).
NumPoints == 5
\* Largest improvement investment, in dollars.
MaxInvest == 1

\* Smallest standard deviation the widgets accept (0.001 mm).
MinStd == 1

\* Values of the dimension widgets (target, mean, lower and upper limit):
\* a coarse grid inside the widgets' common range 10.0 .. 100.0 mm.
Dims == {0, 12, 24}
Targets == {12}
\* Values a sampled dimension takes: the grid, and one value beyond each end.
SampleVals == Dims \cup {-1, 25}
Costs == {1, 2}
Revenues == {2, 3}

(***************************************************************************)
(* Exact rationals standing for the script's floats.                       *)
(***************************************************************************)
Abs(n) == IF n < 0 THEN -n ELSE n

RECURSIVE GCD(_, _)
GCD(a, b) == IF b = 0 THEN a ELSE GCD(b, a % b)

\* n / d with d # 0, in lowest terms, den > 0.
Rat(n, d) ==
    LET g == GCD(Abs(n), Abs(d))
        s == IF d < 0 THEN -1 ELSE 1
    IN  [num |-> s * (n \div g), den |-> s * (d \div g)]

RatOfInt(n) == [num |-> n, den |-> 1]
RatSub(a, b) == Rat(a.num * b.den - b.num * a.den, a.den * b.den)
RatMul(a, b) == Rat(a.num * b.num, a.den * b.den)
RatDiv(a, b) == Rat(a.num * b.den, a.den * b.num)
RatLess(a, b) == a.num * b.den < b.num * a.den

\* Variant: the larger of the two.
MinAsMax(a, b) == IF RatLess(a, b) THEN b ELSE a

\* Python's min(a, b): b if b < a, else a.
Min(a, b) == IF RatLess(b, a) THEN b ELSE a

Zero == RatOfInt(0)
\* float('inf')
Inf == [num |-> 1, den |-> 0]

(***************************************************************************)
(* Line 28: np.sum((parts < lower) | (parts > upper)).                     *)
(***************************************************************************)
\* Variant: a value at a limit counts as out of specification.
IsDefectInclusive(v, lower, upper) == (v <= lower) \/ (v >= upper)

IsDefect(v, lower, upper) == (v < lower) \/ (v > upper)

RECURSIVE CountDefects(_, _, _)
CountDefects(parts, lower, upper) ==
    IF parts = << >> THEN 0
    ELSE (IF IsDefect(Head(parts), lower, upper) THEN 1 ELSE 0)
         + CountDefects(Tail(parts), lower, upper)

(***************************************************************************)
(* Lines 32-35: financial impact of the current batch.                     *)
(***************************************************************************)
TotalManufacturingCost(batch, cost) == batch * cost
\* Variant: every unit of the batch counts as good.
GoodPartsWholeBatch(batch, d) == batch
GoodParts(batch, d) == batch - d
TotalRevenue(good, revenue) == good * revenue
Profit(revenue_total, cost_total) == revenue_total - cost_total

(***************************************************************************)
(* Lines 38-41 and 151: process capability indices.                        *)
(***************************************************************************)
Cp(lower, upper, std) == Rat(upper - lower, 6 * std)
Cpu(upper, mean, std) == Rat(upper - mean, 3 * std)
Cpl(lower, mean, std) == Rat(mean - lower, 3 * std)

(***************************************************************************)
(* Lines 47-62: the density curve's points and the three shaded subsets.   *)
(* pdf is indexed by the same masks as x and carries no decision, so only  *)
(* x is kept.                                                              *)
(***************************************************************************)
RatLeq(a, b) == a.num * b.den <= b.num * a.den

\* np.linspace(mean - 4*std, mean + 4*std, n)
Linspace(mean, std, n) ==
    [i \in 1..n |-> Rat((mean - 4 * std) * (n - 1) + (i - 1) * 8 * std, n - 1)]

\* Variant: strict comparisons for the within-spec region.
InSpecPointStrict(p, lower, upper) ==
    RatLess(RatOfInt(lower), p) /\ RatLess(p, RatOfInt(upper))

InSpecPoint(p, lower, upper) ==
    RatLeq(RatOfInt(lower), p) /\ RatLeq(p, RatOfInt(upper))
LowerOutPoint(p, lower) == RatLess(p, RatOfInt(lower))
UpperOutPoint(p, upper) == RatLess(RatOfInt(upper), p)

InSpecX(pts, lower, upper) ==
    SelectSeq(pts, LAMBDA p : InSpecPoint(p, lower, upper))
LowerOutX(pts, lower) == SelectSeq(pts, LAMBDA p : LowerOutPoint(p, lower))
UpperOutX(pts, upper) == SelectSeq(pts, LAMBDA p : UpperOutPoint(p, upper))

(***************************************************************************)
(* Lines 97-102 and 112-115: the messages shown for Cpk and for profit.    *)
(***************************************************************************)
\* Variant: the thresholds compared with <= instead of <.
CapabilityLabelInclusive(k) ==
    IF RatLeq(k, RatOfInt(1)) THEN "not capable"
    ELSE IF RatLeq(k, Rat(133, 100)) THEN "marginally capable"
    ELSE "capable"

CapabilityLabel(k) ==
    IF RatLess(k, RatOfInt(1)) THEN "not capable"
    ELSE IF RatLess(k, Rat(133, 100)) THEN "marginally capable"
    ELSE "capable"

FinancialLabel(p) == IF p < 0 THEN "loss" ELSE "profitable"

(***************************************************************************)
(* Line 130: stats.norm.cdf, in thousandths, tabulated at z in tenths      *)
(* (z is rounded down to a tenth; the values are those of the standard     *)
(* normal CDF rounded to three decimals).                                  *)
(***************************************************************************)
CdfTable ==
    <<500, 540, 579, 618, 655, 691, 726, 758, 788, 816,
      841, 864, 885, 903, 919, 933, 945, 955, 964, 971,
      977, 982, 986, 989, 992, 994, 995, 997, 997, 998,
      999, 999, 999, 1000, 1000, 1000, 1000, 1000, 1000, 1000, 1000>>

NormCdf(z) ==
    LET t == (10 * z.num) \div z.den
    IN  IF t >= 40 THEN 1000
        ELSE IF t <= -40 THEN 0
        ELSE IF t >= 0 THEN CdfTable[t + 1]
        ELSE 1000 - CdfTable[(-t) + 1]

(***************************************************************************)
(* Lines 124-137: the improvement scenario.                                *)
(***************************************************************************)
\* Variant: the improved mean is always the target.
ImprovedMeanAlwaysTarget(centered, target, mean) == target
ImprovedMean(centered, target, mean) == IF centered THEN target ELSE mean

ZScore(limit, mean, std) == Rat(limit - mean, std)

\* Variant: the in-spec probability, without the complement.
InSpecRateImproved(lower, upper, mean, std) ==
    Rat((NormCdf(ZScore(upper, mean, std))
         - NormCdf(ZScore(lower, mean, std))) * 100, 1000)

\* (1 - (cdf(z_upper) - cdf(z_lower))) * 100, in percent
DefectRateImproved(lower, upper, mean, std) ==
    Rat((1000 - (NormCdf(ZScore(upper, mean, std))
                 - NormCdf(ZScore(lower, mean, std)))) * 100, 1000)

\* batch_size * (1 - defect_rate_improved / 100)
GoodPartsImproved(batch, rate) ==
    RatMul(RatOfInt(batch), RatSub(RatOfInt(1), RatDiv(rate, RatOfInt(100))))

TotalRevenueImproved(good, revenue) == RatMul(good, RatOfInt(revenue))

\* Variant: the investment is not subtracted.
ProfitImprovedNoInvestment(revenue_total, cost_total, investment) ==
    RatSub(revenue_total, RatOfInt(cost_total))

ProfitImproved(revenue_total, cost_total, investment) ==
    RatSub(RatSub(revenue_total, RatOfInt(cost_total)), RatOfInt(investment))

\* Variant: a zero investment yields an ROI of 0.
RoiZeroWhenFree(improved, now, investment) ==
    IF investment > 0
    THEN RatMul(RatDiv(RatSub(improved, RatOfInt(now)), RatOfInt(investment)),
                RatOfInt(100))
    ELSE Zero

Roi(improved, now, investment) ==
    IF investment > 0
    THEN RatMul(RatDiv(RatSub(improved, RatOfInt(now)), RatOfInt(investment)),
                RatOfInt(100))
    ELSE Inf

(***************************************************************************)
(* The script run.                                                         *)
(***************************************************************************)
\* Lines 12-22: the sidebar widgets hold any value of their ranges.
Init ==
    /\ pc = "start"
    /\ target_dimension \in Targets
    /\ process_mean \in Dims
    /\ process_std \in MinStd..MaxStd
    /\ lower_spec \in Dims
    /\ upper_spec \in Dims
    /\ batch_size \in 1..MaxBatch
    /\ cost_per_unit \in Costs
    /\ revenue_per_unit \in Revenues
    /\ manufactured_parts = << >>
    /\ defects = 0 /\ defect_rate = Zero /\ total_manufacturing_cost = 0
    /\ good_parts = 0 /\ total_revenue = 0 /\ profit = 0
    /\ cp = Zero /\ cpu = Zero /\ cpl = Zero /\ cpk = Zero
    /\ x = << >> /\ in_spec_x = << >> /\ lower_out_x = << >> /\ upper_out_x = << >>
    /\ capability_label = "" /\ financial_label = ""
    /\ improved_std = MinStd /\ centered_mean = FALSE /\ improved_mean = 0
    /\ defect_rate_improved = Zero /\ good_parts_improved = Zero
    /\ total_revenue_improved = Zero /\ improvement_cost = 0
    /\ profit_improved = Zero /\ roi = Zero
    /\ cpu_improved = Zero /\ cpl_improved = Zero /\ cpk_improved = Zero

\* Line 25: np.random.normal draws batch_size dimensions.
Simulate ==
    /\ pc = "start"
    /\ \E parts \in [1..batch_size -> SampleVals] : manufactured_parts' = parts
    /\ pc' = "sampled"
    /\ UNCHANGED <<inputs, current, curve, labels, improvement>>

\* Lines 28-41: defect rate, financial impact, capability indices.
Analyze ==
    /\ pc = "sampled"
    /\ defects' = CountDefects(manufactured_parts, lower_spec, upper_spec)
    /\ defect_rate' = RatMul(Rat(defects', batch_size), RatOfInt(100))
    /\ total_manufacturing_cost' = TotalManufacturingCost(batch_size, cost_per_unit)
    /\ good_parts' = GoodParts(batch_size, defects')
    /\ total_revenue' = TotalRevenue(good_parts', revenue_per_unit)
    /\ profit' = Profit(total_revenue', total_manufacturing_cost')
    /\ cp' = Cp(lower_spec, upper_spec, process_std)
    /\ cpu' = Cpu(upper_spec, process_mean, process_std)
    /\ cpl' = Cpl(lower_spec, process_mean, process_std)
    /\ cpk' = Min(cpu', cpl')
    /\ pc' = "analyzed"
    /\ UNCHANGED <<inputs, manufactured_parts, curve, labels, improvement>>

\* Lines 47-62: the curve and its shaded regions.
Plot ==
    /\ pc = "analyzed"
    /\ x' = Linspace(process_mean, process_std, NumPoints)
    /\ in_spec_x' = InSpecX(x', lower_spec, upper_spec)
    /\ lower_out_x' = LowerOutX(x', lower_spec)
    /\ upper_out_x' = UpperOutX(x', upper_spec)
    /\ pc' = "plotted"
    /\ UNCHANGED <<inputs, manufactured_parts, current, labels, improvement>>

\* Lines 97-115: the capability and the financial message.
Report ==
    /\ pc = "plotted"
    /\ capability_label' = CapabilityLabel(cpk)
    /\ financial_label' = FinancialLabel(profit)
    /\ pc' = "reported"
    /\ UNCHANGED <<inputs, manufactured_parts, current, curve, improvement>>

\* Lines 121-151: the improvement scenario, from the slider, the checkbox
\* and the investment widget.
Improve ==
    /\ pc = "reported"
    /\ \E s \in MinStd..(2 * process_std), c \in BOOLEAN, inv \in 0..MaxInvest :
        /\ improved_std' = s
        /\ centered_mean' = c
        /\ improvement_cost' = inv
    /\ improved_mean' = ImprovedMean(centered_mean', target_dimension, process_mean)
    /\ defect_rate_improved' =
           DefectRateImproved(lower_spec, upper_spec, improved_mean', improved_std')
    /\ good_parts_improved' = GoodPartsImproved(batch_size, defect_rate_improved')
    /\ total_revenue_improved' =
           TotalRevenueImproved(good_parts_improved', revenue_per_unit)
    /\ profit_improved' =
           ProfitImproved(total_revenue_improved', total_manufacturing_cost,
                          improvement_cost')
    /\ roi' = Roi(profit_improved', profit, improvement_cost')
    /\ cpu_improved' = Cpu(upper_spec, improved_mean', improved_std')
    /\ cpl_improved' = Cpl(lower_spec, improved_mean', improved_std')
    /\ cpk_improved' = Min(cpu_improved', cpl_improved')
    /\ pc' = "done"
    /\ UNCHANGED <<inputs, manufactured_parts, current, curve, labels>>

Next == Simulate \/ Analyze \/ Plot \/ Report \/ Improve

Spec == Init /\ [][Next]_vars

(***************************************************************************)
(* Properties.                                                             *)
(***************************************************************************)
Analyzed == pc \in {"analyzed", "plotted", "reported", "done"}
Plotted == pc \in {"plotted", "reported", "done"}
Reported == pc \in {"reported", "done"}
Done == pc = "done"

ValidLimits == lower_spec < upper_spec
Range(f) == {f[i] : i \in DOMAIN f}

\* C1: for valid inputs and any sampled batch, defect_count + good_count
\* equals batch_size, and both counts lie in 0 .. batch_size.
C1_CountsAddUp ==
    (Analyzed /\ ValidLimits /\ batch_size > 0 /\ process_std > 0) =>
        /\ Len(manufactured_parts) = batch_size
        /\ defects + good_parts = batch_size
        /\ 0 <= defects /\ defects <= batch_size
        /\ 0 <= good_parts /\ good_parts <= batch_size

C1_Witness ==
    Analyzed /\ ValidLimits /\ batch_size = MaxBatch /\ defects = 1 /\ good_parts >= 1

\* C2: an analysis invoked with upper_spec <= lower_spec, std <= 0,
\* batch_size <= 0 or a negative investment ends in a DomainError and
\* produces no result (no defect rate, capability index, profit or ROI).
InvalidInputs ==
    \/ process_std <= 0
    \/ upper_spec <= lower_spec
    \/ batch_size <= 0
    \/ improvement_cost < 0

C2_DomainError == InvalidInputs => ~Analyzed

\* C3: with a zero investment the ROI is the infinite marker, whatever the
\* two profits are; with a positive investment it is
\* (profit_improved - profit) / investment * 100.
C3_Roi ==
    Done =>
        /\ (improvement_cost = 0) => (roi = Inf /\ roi # Zero)
        /\ (improvement_cost > 0) =>
              /\ roi.den > 0
              /\ roi.num * (improvement_cost * profit_improved.den)
                    = (profit_improved.num - profit * profit_improved.den)
                          * 100 * roi.den

C3_Witness ==
    /\ Done /\ improvement_cost = 0 /\ roi = Inf
    /\ profit_improved.num < profit * profit_improved.den

\* C4: for valid inputs, in the current pass and in the improvement pass,
\* Cpk is the smaller of Cpu = (upper - mean)/(3 std) and
\* Cpl = (mean - lower)/(3 std) of that pass, and Cp = (upper - lower)/(6 std)
\* is not negative.
IsQuotient(r, n, d) == r.den > 0 /\ r.num * d = n * r.den
IsSmaller(k, a, b) ==
    /\ k \in {a, b}
    /\ k.num * a.den <= a.num * k.den
    /\ k.num * b.den <= b.num * k.den

C4_Cpk ==
    /\ (Analyzed /\ ValidLimits) =>
          /\ IsQuotient(cpu, upper_spec - process_mean, 3 * process_std)
          /\ IsQuotient(cpl, process_mean - lower_spec, 3 * process_std)
          /\ IsSmaller(cpk, cpu, cpl)
          /\ IsQuotient(cp, upper_spec - lower_spec, 6 * process_std)
          /\ cp.num >= 0
    /\ (Done /\ ValidLimits) =>
          /\ IsQuotient(cpu_improved, upper_spec - improved_mean, 3 * improved_std)
          /\ IsQuotient(cpl_improved, improved_mean - lower_spec, 3 * improved_std)
          /\ IsSmaller(cpk_improved, cpu_improved, cpl_improved)

C4_Witness ==
    /\ Done /\ ValidLimits
    /\ cpu # cpl /\ cpk = cpl
    /\ cpu_improved # cpl_improved /\ cpk_improved = cpu_improved

\* C5 as stated: for lower < upper and any mean, the analytic defect rate
\* at a larger standard deviation is never below the one at a smaller one.
LargerStds == improved_std..(2 * process_std)

C5_Original ==
    (Done /\ ValidLimits) =>
        \A s2 \in LargerStds :
            RatLeq(defect_rate_improved,
                   DefectRateImproved(lower_spec, upper_spec, improved_mean, s2))

\* C5 amended: the same, for a mean that lies within the limits
\* (lower <= mean <= upper).
C5_MonotoneWithinLimits ==
    (Done /\ ValidLimits /\ lower_spec <= improved_mean /\ improved_mean <= upper_spec) =>
        \A s2 \in LargerStds :
            RatLeq(defect_rate_improved,
                   DefectRateImproved(lower_spec, upper_spec, improved_mean, s2))

C5_Witness ==
    /\ Done /\ ValidLimits
    /\ lower_spec < improved_mean /\ improved_mean < upper_spec
    /\ \E s2 \in LargerStds :
          RatLess(defect_rate_improved,
                  DefectRateImproved(lower_spec, upper_spec, improved_mean, s2))

\* C6: with improved_std equal to the current std and the mean not centered,
\* the improvement pass's capability indices equal the current ones, also
\* when the target differs from the process mean.
C6_SameIndices ==
    (Done /\ improved_std = process_std /\ ~centered_mean) =>
        /\ cpu_improved = cpu
        /\ cpl_improved = cpl
        /\ cpk_improved = cpk

C6_Witness ==
    /\ Done /\ improved_std = process_std /\ ~centered_mean
    /\ target_dimension # process_mean /\ ValidLimits
    /\ cpk_improved = cpk /\ cpu # cpl

\* C7: the defect count is the number of samples strictly below lower_spec
\* or strictly above upper_spec; a sample exactly at a limit is a good part.
OutOfSpec == {i \in DOMAIN manufactured_parts :
                 manufactured_parts[i] < lower_spec
                 \/ manufactured_parts[i] > upper_spec}
AtLimit == {i \in DOMAIN manufactured_parts :
               manufactured_parts[i] \in {lower_spec, upper_spec}}

C8_Profit ==
    /\ Analyzed =>
          profit = good_parts * revenue_per_unit - batch_size * cost_per_unit
    /\ Done =>
          /\ profit_improved.den > 0 /\ good_parts_improved.den > 0
          /\ profit_improved.num * good_parts_improved.den
                = (good_parts_improved.num * revenue_per_unit
                   - (batch_size * cost_per_unit + improvement_cost)
                        * good_parts_improved.den) * profit_improved.den

C8_Witness ==
    /\ Done /\ improvement_cost > 0 /\ defects > 0 /\ good_parts > 0
    /\ good_parts_improved.den > 1

\* C9: Cpk < 1.0 gives "not capable", 1.0 <= Cpk < 1.33 "marginally
\* capable", Cpk >= 1.33 "capable"; profit < 0 gives "loss", otherwise
\* "profitable".
C9_Labels ==
    Reported =>
        /\ capability_label \in {"not capable", "marginally capable", "capable"}
        /\ (capability_label = "not capable") <=> (cpk.num < cpk.den)
        /\ (capability_label = "marginally capable")
              <=> (cpk.num >= cpk.den /\ 100 * cpk.num < 133 * cpk.den)
        /\ (capability_label = "capable") <=> (100 * cpk.num >= 133 * cpk.den)
        /\ financial_label \in {"loss", "profitable"}
        /\ (financial_label = "loss") <=> (profit < 0)
        /\ (financial_label = "profitable") <=> (profit >= 0)

C9_Witness ==
    /\ Reported
    /\ cpk = RatOfInt(1) /\ capability_label = "marginally capable"
    /\ profit = 0 /\ financial_label = "profitable"

\* C10: when lower_spec <= upper_spec every curve point lies in exactly one
\* of the three subsets, and it lies in the below- or above-spec subset
\* exactly when the defect rule would count a sample of that value.
PointIsDefect(p) ==
    p.num < lower_spec * p.den \/ p.num > upper_spec * p.den
Membership(p) ==
    (IF p \in Range(in_spec_x) THEN 1 ELSE 0)
    + (IF p \in Range(lower_out_x) THEN 1 ELSE 0)
    + (IF p \in Range(upper_out_x) THEN 1 ELSE 0)

C10_Partition ==
    (Plotted /\ lower_spec <= upper_spec) =>
        /\ Len(x) = NumPoints
        /\ Len(in_spec_x) + Len(lower_out_x) + Len(upper_out_x) = Len(x)
        /\ \A i \in DOMAIN x :
              /\ Membership(x[i]) = 1
              /\ (x[i] \in Range(lower_out_x) \cup Range(upper_out_x))
                    <=> PointIsDefect(x[i])

C10_Witness ==
    /\ Plotted /\ ValidLimits
    /\ RatOfInt(lower_spec) \in Range(in_spec_x)
    /\ RatOfInt(upper_spec) \in Range(in_spec_x)
    /\ upper_out_x # << >>

====
